---- MODULE Spec2Model ----
(***************************************************************************)
(* Model of core/config.py: the Config loader (Config.read), the           *)
(* validation pipeline (Config.validate and its seven passes) and the      *)
(* module-level initialisation that runs them once at import.              *)
(*                                                                         *)
(* Text is a sequence of one-character strings, so that lower(), split(),  *)
(* startswith() and the two regular expressions are computed character by  *)
(* character.  A configuration value is a tagged record [t, v]: every      *)
(* value starts as t = "str" and the passes replace it by a typed value.   *)
(***************************************************************************)
EXTENDS Integers, Sequences, FiniteSets, TLC

VARIABLES env,           \* what the program finds: files, platform encoding, file system, importable modules
          cfg,           \* Config._sections: section name -> section
          pc,            \* position of the module-level initialisation / of validate
          exc,           \* the exception that left read or validate, if any
          log,           \* records handed to logger.warning / logger.debug / print
          imports,       \* module names handed to __import__, in order
          reads,         \* <<file, encoding>> of every file opened by ConfigParser.read
          unknown_mods,  \* import_crawlers' local list of the same name
          run,           \* how many times validate has been entered
          first          \* cfg as the first completed validate left it

vars == <<env, cfg, pc, exc, log, imports, reads, unknown_mods, run, first>>

---------------------------------------------------------------------------
(* Bounds of the model *)

\* longest provider list of one Priority category
MaxMods == 3
\* most file names handed to Config.read in one call
MaxFiles == 2

---------------------------------------------------------------------------
(* Text *)

LowerOf == [A |-> "a", B |-> "b", C |-> "c", D |-> "d", E |-> "e", F |-> "f", G |-> "g",
            H |-> "h", I |-> "i", J |-> "j", K |-> "k", L |-> "l", M |-> "m", N |-> "n",
            O |-> "o", P |-> "p", Q |-> "q", R |-> "r", S |-> "s", T |-> "t", U |-> "u",
            V |-> "v", W |-> "w", X |-> "x", Y |-> "y", Z |-> "z"]

LowerLetters == {LowerOf[k] : k \in DOMAIN LowerOf}

DigitValue == ("0" :> 0) @@ ("1" :> 1) @@ ("2" :> 2) @@ ("3" :> 3) @@ ("4" :> 4) @@
              ("5" :> 5) @@ ("6" :> 6) @@ ("7" :> 7) @@ ("8" :> 8) @@ ("9" :> 9)

Digits == DOMAIN DigitValue

Whitespace == {" "}

\* str.lower()
Lower(s) == [i \in 1..Len(s) |-> IF s[i] \in DOMAIN LowerOf THEN LowerOf[s[i]] ELSE s[i]]

\* str.startswith(p)
StartsWith(s, p) == Len(s) >= Len(p) /\ SubSeq(s, 1, Len(p)) = p

\* position of the first d in s, 0 if there is none (str.find + 1)
Find(s, d) == IF \E i \in 1..Len(s) : s[i] = d
              THEN CHOOSE i \in 1..Len(s) : s[i] = d /\ \A j \in 1..(i-1) : s[j] # d
              ELSE 0

\* str.split(d) for a one-character separator: ''.split(',') is ['']
RECURSIVE Split(_, _)
Split(s, d) == LET i == Find(s, d) IN
               IF i = 0 THEN <<s>>
               ELSE <<SubSeq(s, 1, i-1)>> \o Split(SubSeq(s, i+1, Len(s)), d)

\* sep.join(parts)
RECURSIVE Join(_, _)
Join(parts, sep) == IF parts = <<>> THEN <<>>
                    ELSE IF Len(parts) = 1 THEN parts[1]
                    ELSE parts[1] \o sep \o Join(Tail(parts), sep)

\* length of the longest prefix of s[from..] made of characters of class
RECURSIVE Run(_, _, _)
Run(s, from, class) == IF from <= Len(s) /\ s[from] \in class
                       THEN 1 + Run(s, from + 1, class) ELSE 0

AllIn(s, class) == \A i \in 1..Len(s) : s[i] \in class

---------------------------------------------------------------------------
(* Values and exceptions *)

StrV(s) == [t |-> "str", v |-> s]
IntV(n) == [t |-> "int", v |-> n]
BoolV(b) == [t |-> "bool", v |-> b]
TupleV(q) == [t |-> "tuple", v |-> q]
DictV(d) == [t |-> "dict", v |-> d]
TemplateV(s) == [t |-> "Template", v |-> s]

\* Python truth value of a configuration value
Truthy(x) == CASE x.t = "str"   -> x.v # <<>>
               [] x.t = "int"   -> x.v # 0
               [] x.t = "bool"  -> x.v
               [] x.t = "tuple" -> x.v # <<>>
               [] x.t = "dict"  -> x.v # <<>>
               [] OTHER         -> TRUE

\* equality of two values, compared by type first
Same(a, b) == a.t = b.t /\ a.v = b.v

\* an exception: its class, the section and key it concerns, the provider name it concerns
NoExc == [type |-> "none", sec |-> "", key |-> "", name |-> <<>>]
Raise(type, sec, key) == [type |-> type, sec |-> sec, key |-> key, name |-> <<>>]
Ok(val) == [exc |-> NoExc, val |-> val]
Err(e) == [exc |-> e, val |-> <<>>]

---------------------------------------------------------------------------
(* configparser, as Config inherits it *)

\* BasicInterpolation.before_get on a raw value.  A string is scanned for '%':
\* '%%' gives '%', any other '%' is an InterpolationSyntaxError (the form
\* '%(name)s' is outside the modelled inputs).  A value that an earlier pass
\* already replaced is not a string: "while rest:" skips a falsy one, giving
\* ''.join([]) = '', and calls rest.find on a truthy one, an AttributeError.
RECURSIVE Interpolate(_)
Interpolate(s) ==
    LET p == Find(s, "%") IN
    IF p = 0 THEN Ok(s)
    ELSE IF p < Len(s) /\ s[p+1] = "%"
         THEN LET r == Interpolate(SubSeq(s, p+2, Len(s))) IN
              IF r.exc.type # "none" THEN r
              ELSE Ok(SubSeq(s, 1, p-1) \o <<"%">> \o r.val)
         ELSE Err(Raise("InterpolationSyntaxError", "", ""))

before_get(x) == IF x.t = "str" THEN Interpolate(x.v)
                 ELSE IF Truthy(x) THEN Err(Raise("AttributeError", "", ""))
                 ELSE Ok(<<>>)

\* BasicInterpolation.before_set: a '%' left after removing '%%' is a ValueError
RECURSIVE LoneFormat(_)
LoneFormat(s) == LET p == Find(s, "%") IN
                 IF p = 0 THEN FALSE
                 ELSE IF p < Len(s) /\ s[p+1] = "%" THEN LoneFormat(SubSeq(s, p+2, Len(s)))
                 ELSE TRUE

\* ConfigParser.get(section, option)
get(c, sec, key) == IF sec \notin DOMAIN c THEN Err(Raise("NoSectionError", sec, ""))
                    ELSE IF key \notin DOMAIN c[sec] THEN Err(Raise("NoOptionError", sec, key))
                    ELSE LET r == before_get(c[sec][key]) IN
                         IF r.exc.type = "none" THEN r
                         ELSE Err([r.exc EXCEPT !.sec = sec, !.key = key])

\* int(s) for a string without surrounding blanks: an optional sign, then
\* digits, single underscores allowed between digits
IsIntLiteral(s) ==
    LET b == IF s # <<>> /\ s[1] \in {"+", "-"} THEN Tail(s) ELSE s IN
    /\ b # <<>>
    /\ AllIn(b, Digits \cup {"_"})
    /\ b[1] # "_" /\ b[Len(b)] # "_"
    /\ \A i \in 1..(Len(b)-1) : ~(b[i] = "_" /\ b[i+1] = "_")

RECURSIVE Magnitude(_, _)
Magnitude(b, acc) == IF b = <<>> THEN acc
                     ELSE IF b[1] = "_" THEN Magnitude(Tail(b), acc)
                     ELSE Magnitude(Tail(b), 10 * acc + DigitValue[b[1]])

IntOf(s) == IF s[1] = "-" THEN 0 - Magnitude(Tail(s), 0)
            ELSE IF s[1] = "+" THEN Magnitude(Tail(s), 0)
            ELSE Magnitude(s, 0)

\* a getint that swallows every failure and gives 0
getint_or_zero(c, sec, key) == LET r == get(c, sec, key) IN
                               IF r.exc.type = "none" /\ IsIntLiteral(r.val) THEN Ok(IntOf(r.val))
                               ELSE Ok(0)

\* ConfigParser.getint
getint(c, sec, key) == LET r == get(c, sec, key) IN
                       IF r.exc.type # "none" THEN r
                       ELSE IF IsIntLiteral(r.val) THEN Ok(IntOf(r.val))
                       ELSE Err(Raise("ValueError", sec, key))

TrueTokens == {<<"1">>, <<"y", "e", "s">>, <<"t", "r", "u", "e">>, <<"o", "n">>}
FalseTokens == {<<"0">>, <<"n", "o">>, <<"f", "a", "l", "s", "e">>, <<"o", "f", "f">>}

\* ConfigParser.getboolean (RawConfigParser._convert_to_boolean)
getboolean(c, sec, key) == LET r == get(c, sec, key) IN
                           IF r.exc.type # "none" THEN r
                           ELSE IF Lower(r.val) \in TrueTokens THEN Ok(TRUE)
                           ELSE IF Lower(r.val) \in FalseTokens THEN Ok(FALSE)
                           ELSE Err(Raise("ValueError", sec, key))

\* Config.__getattr__: the section, or KeyError(name)
GetAttr(c, name) == IF name \notin DOMAIN c THEN Err(Raise("KeyError", name, ""))
                    ELSE Ok(c[name])
---------------------------------------------------------------------------
(* Config.read *)

\* What the files on disk can be:
\*   "missing"  no such file (ConfigParser.read skips a file it cannot open)
\*   "utf8"     a well-formed file in UTF-8 without a byte-order mark
\*   "bom"      the same file saved as UTF-8 with a byte-order mark
\*   "gbk"      the same file with non-ASCII text, saved in GBK
\*   "nosect"   UTF-8 text whose first line is not a section header
FileKinds == {"missing", "utf8", "bom", "gbk", "nosect"}

\* the codecs locale.getpreferredencoding() can name when encoding is None
Platforms == {"utf-8", "cp936"}

\* a read that lets the OSError of a missing file through
ReadOneMissingRaises(kind, codec) ==
    CASE kind = "missing" -> "FileNotFoundError"
      [] kind = "utf8"    -> "parsed"
      [] kind = "bom"     -> IF codec = "utf-8-sig" THEN "parsed" ELSE "MissingSectionHeaderError"
      [] kind = "gbk"     -> IF codec = "cp936" THEN "parsed" ELSE "UnicodeDecodeError"
      [] kind = "nosect"  -> "MissingSectionHeaderError"

\* what open(file, encoding=codec) followed by ConfigParser._read does.
\* The byte-order mark decodes under "utf-8" to U+FEFF, which no strip()
\* removes, so the first line is no section header; "utf-8-sig" drops it.
ReadOne(kind, codec) ==
    CASE kind = "missing" -> "skipped"
      [] kind = "utf8"    -> "parsed"
      [] kind = "bom"     -> IF codec = "utf-8-sig" THEN "parsed" ELSE "MissingSectionHeaderError"
      [] kind = "gbk"     -> IF codec = "cp936" THEN "parsed" ELSE "UnicodeDecodeError"
      [] kind = "nosect"  -> "MissingSectionHeaderError"

\* ConfigParser.read(filenames, encoding): the files in order, stopping at the
\* first one that raises.  parsed: some file was parsed into the sections;
\* opened: the <<index, encoding>> pairs of the files that were opened.
RECURSIVE ReadFrom(_, _, _, _, _)
ReadFrom(fs, i, encoding, codec, acc) ==
    IF i > Len(fs) THEN [acc EXCEPT !.status = "ok"]
    ELSE LET r == ReadOne(fs[i], codec) IN
         IF r = "skipped" THEN ReadFrom(fs, i + 1, encoding, codec, acc)
         ELSE LET a == [acc EXCEPT !.opened = Append(@, <<i, encoding>>)] IN
              IF r = "parsed" THEN ReadFrom(fs, i + 1, encoding, codec, [a EXCEPT !.parsed = TRUE])
              ELSE [a EXCEPT !.status = r]

SuperRead(fs, encoding, platform, before) ==
    ReadFrom(fs, 1, encoding, IF encoding = "default" THEN platform ELSE encoding,
             [status |-> "ok", parsed |-> before.parsed, opened |-> before.opened])

\* Config.read: UTF-8; on UnicodeDecodeError, utf-8-sig; on any exception of
\* that, the platform's default encoding, whose exception propagates
ConfigRead(fs, platform) ==
    LET r1 == SuperRead(fs, "utf-8", platform, [parsed |-> FALSE, opened |-> <<>>]) IN
    IF r1.status # "UnicodeDecodeError" THEN r1
    ELSE LET r2 == SuperRead(fs, "utf-8-sig", platform, r1) IN
         IF r2.status = "ok" THEN r2
         ELSE SuperRead(fs, "default", platform, r2)
---------------------------------------------------------------------------
(* is_url *)

AlNum == LowerLetters \cup Digits \cup DOMAIN LowerOf

\* [A-Z0-9](?:[A-Z0-9-]{0,61}[A-Z0-9])?   (re.IGNORECASE)
IsLabel(p) == /\ Len(p) >= 1 /\ Len(p) <= 63
              /\ p[1] \in AlNum /\ p[Len(p)] \in AlNum
              /\ AllIn(p, AlNum \cup {"-"})

\* [A-Z]{2,6}\.?|[A-Z0-9-]{2,}\.?   without the optional dot
IsTopLevel(p) == Len(p) >= 2 /\ AllIn(p, AlNum \cup {"-"})

\* (?:label\.)+(?:top-level)\.?
IsDomain(h) ==
    LET parts == Split(h, ".")
        n     == Len(parts)
        \* the optional final dot leaves an empty last part
        m     == IF n >= 2 /\ parts[n] = <<>> THEN n - 1 ELSE n
    IN /\ m >= 2
       /\ \A i \in 1..(m-1) : IsLabel(parts[i])
       /\ IsTopLevel(parts[m])

\* \d{1,3}\.\d{1,3}\.\d{1,3}\.\d{1,3}
IsIPv4(h) == LET parts == Split(h, ".") IN
             /\ Len(parts) = 4
             /\ \A i \in 1..4 : Len(parts[i]) \in 1..3 /\ AllIn(parts[i], Digits)

IsHost(h) == IsDomain(h) \/ Lower(h) = <<"l", "o", "c", "a", "l", "h", "o", "s", "t">> \/ IsIPv4(h)

\* (?:/?|[/?]\S+)$
IsUrlTail(r) == \/ r = <<>>
                \/ r = <<"/">>
                \/ Len(r) >= 2 /\ r[1] \in {"/", "?"} /\ \A i \in 2..Len(r) : r[i] \notin Whitespace

\* is_url(url).  No host alternative matches ':', '/' or '?', and what follows
\* the host starts with one of them or is empty: the host is the text up to
\* the first of them, and the port, if any, is the whole run of digits after ':'.
is_url(url) ==
    \E scheme \in {<<"h", "t", "t", "p", ":", "/", "/">>, <<"h", "t", "t", "p", "s", ":", "/", "/">>} :
       /\ StartsWith(Lower(url), scheme)
       /\ LET rest == SubSeq(url, Len(scheme) + 1, Len(url))
              n    == Run(rest, 1, {rest[i] : i \in 1..Len(rest)} \ {":", "/", "?"})
              host == SubSeq(rest, 1, n)
              tail == SubSeq(rest, n + 1, Len(rest))
              d    == IF tail # <<>> /\ tail[1] = ":" THEN Run(tail, 2, Digits) ELSE 0
          IN /\ IsHost(host)
             /\ IsUrlTail(IF d >= 1 THEN SubSeq(tail, d + 2, Len(tail)) ELSE tail)

---------------------------------------------------------------------------
(* The passes of Config.validate.  Each takes the configuration c and gives *)
(* the configuration it leaves and the exception it raised, if any.        *)

\* cfg.<sec>.<key>: Config.__getattr__, then DotDict.get (every key of the
\* schema is present in a section that is present)
Attr(c, sec, key) == LET s == GetAttr(c, sec) IN
                     IF s.exc.type # "none" THEN s ELSE Ok(c[sec][key])

\* calling a str method (lower, split) on a value that is no longer a str
NotStr(sec, key) == Raise("AttributeError", sec, key)

norm_int(c) ==
    LET r == getint(c, "Network", "retry") IN
    IF r.exc.type # "none" THEN [cfg |-> c, exc |-> r.exc]
    ELSE LET c1 == [c EXCEPT !.Network.retry = IntV(r.val)]
             t  == getint(c1, "Network", "timeout") IN
         IF t.exc.type # "none" THEN [cfg |-> c1, exc |-> t.exc]
         ELSE [cfg |-> [c1 EXCEPT !.Network.timeout = IntV(t.val)], exc |-> NoExc]

\* i if i.startswith('.') else '.'+i
DotExt(i) == IF StartsWith(i, <<".">>) THEN i ELSE <<".">> \o i

\* one "items = <value>.split(sep); <value> = tuple(...)" step of norm_tuples
SplitField(c, sec, key, sep, lower) ==
    LET a == Attr(c, sec, key) IN
    IF a.exc.type # "none" THEN [cfg |-> c, exc |-> a.exc]
    ELSE IF a.val.t # "str" THEN [cfg |-> c, exc |-> NotStr(sec, key)]
    ELSE LET items == Split(IF lower THEN Lower(a.val.v) ELSE a.val.v, sep)
             out   == IF lower THEN [i \in 1..Len(items) |-> DotExt(items[i])] ELSE items
         IN [cfg |-> [c EXCEPT ![sec][key] = TupleV(out)], exc |-> NoExc]

norm_tuples(c) ==
    LET r1 == SplitField(c, "File", "media_ext", ";", TRUE) IN
    IF r1.exc.type # "none" THEN r1
    ELSE LET r2 == SplitField(r1.cfg, "File", "ignore_folder", ";", FALSE) IN
         IF r2.exc.type # "none" THEN r2
         ELSE SplitField(r2.cfg, "Crawler", "required_keys", ",", FALSE)

\* the list of boolean fields with the NFO field forgotten
BooleanFieldsWithoutNFO == << <<"Crawler", "hardworking_mode">>,
                              <<"Crawler", "remove_actor_in_title">> >>

BooleanFields == << <<"Crawler", "hardworking_mode">>,
                    <<"Crawler", "remove_actor_in_title">>,
                    <<"NFO", "add_genre_to_tag">> >>

RECURSIVE BooleanLoop(_, _)
BooleanLoop(c, i) ==
    IF i > Len(BooleanFields) THEN [cfg |-> c, exc |-> NoExc]
    ELSE LET sec == BooleanFields[i][1]
             key == BooleanFields[i][2]
             r   == getboolean(c, sec, key) IN
         IF r.exc.type # "none" THEN [cfg |-> c, exc |-> r.exc]
         ELSE BooleanLoop([c EXCEPT ![sec][key] = BoolV(r.val)], i + 1)

norm_boolean(c) == BooleanLoop(c, 1)

---------------------------------------------------------------------------
(* validate_proxy *)

\* the pattern without its final '$': anything may follow the port
ProxyMatchNoEnd(proxy) ==
    \E scheme \in {<<"s", "o", "c", "k", "s", "5">>, <<"h", "t", "t", "p">>} :
       LET pre == scheme \o <<":", "/", "/">> IN
       /\ StartsWith(proxy, pre)
       /\ LET h == Run(proxy, Len(pre) + 1, LowerLetters \cup Digits \cup {"-", "."})
              k == Len(pre) + h + 1
              d == Run(proxy, k + 1, Digits)
          IN h >= 1 /\ k <= Len(proxy) /\ proxy[k] = ":" /\ d >= 1

ProxySchemes == {<<"s", "o", "c", "k", "s", "5">>, <<"h", "t", "t", "p">>}
HostChars == LowerLetters \cup Digits \cup {"-", "."}

\* re.match('^(socks5|http)://([-.a-z\d]+):(\d+)$', proxy): after the scheme,
\* the greedy host run cannot pass a ':', which must follow it; then digits
\* up to the end
ProxyMatch(proxy) ==
    \E scheme \in ProxySchemes :
       LET pre == scheme \o <<":", "/", "/">> IN
       /\ StartsWith(proxy, pre)
       /\ LET h == Run(proxy, Len(pre) + 1, HostChars)
              k == Len(pre) + h + 1
              d == Run(proxy, k + 1, Digits)
          IN h >= 1 /\ k <= Len(proxy) /\ proxy[k] = ":" /\ d >= 1 /\ k + d = Len(proxy)

NoProxies == [k \in {} |-> <<>>]

InvalidProxyWarning == [level |-> "WARNING", msg |-> "invalid proxy format", text |-> <<>>]

validate_proxy(c) ==
    LET a == Attr(c, "Network", "proxy") IN
    IF a.exc.type # "none" THEN [cfg |-> c, exc |-> a.exc, log |-> <<>>]
    ELSE IF a.val.t # "str" THEN [cfg |-> c, exc |-> NotStr("Network", "proxy"), log |-> <<>>]
    ELSE LET proxy   == Lower(a.val.v)
             matched == proxy # <<>> /\ ProxyMatch(proxy)
             proxies == IF matched THEN [k \in {"http", "https"} |-> proxy] ELSE NoProxies
         IN [cfg |-> [c EXCEPT !.Network.proxy = DictV(proxies)],
             exc |-> NoExc,
             log |-> IF proxy # <<>> /\ ~matched THEN <<InvalidProxyWarning>> ELSE <<>>]
---------------------------------------------------------------------------
(* import_crawlers *)

fc2fan == <<"f", "c", "2", "f", "a", "n">>

\* os.path.isdir(path) in the file system e
isdir(e, path) == path \in e.dirs

\* __import__(module): a module that is there and imports cleanly, one whose
\* import raises something else (here ImportError), or ModuleNotFoundError
Import(e, module) == IF module \in e.broken THEN "ImportError"
                     ELSE IF module \in e.installed THEN "ok"
                     ELSE "ModuleNotFoundError"

\* the precondition with its "not" lost: fc2fan skipped when its directory exists
SkipFc2fanInverted(e, c, name) == name = fc2fan /\ isdir(e, c.Crawler.fc2fan_local_path.v)

\* the precondition of the fc2fan crawler: a configured local path that is a directory
SkipFc2fan(e, c, name) == name = fc2fan /\ ~isdir(e, c.Crawler.fc2fan_local_path.v)

\* valid_mods.insert(0, import_name): the resolved names in reverse order
KeepValidFront(valid, import_name) == <<import_name>> \o valid

\* valid_mods.append(import_name)
KeepValid(valid, import_name) == Append(valid, import_name)

SkippedFc2fanNote == [level |-> "DEBUG", msg |-> "fc2fan skipped: no valid path", text |-> <<>>]

\* the report joined by ',' alone
UnknownReportComma(e, unknown) ==
    [level |-> IF e.asMain THEN "PRINT" ELSE "WARNING",
     msg   |-> "invalid crawlers",
     text  |-> Join(unknown, <<",">>)]

\* the report of the unknown names: logger.warning when imported as a module,
\* print when config.py is run directly
UnknownReport(e, unknown) ==
    [level |-> IF e.asMain THEN "PRINT" ELSE "WARNING",
     msg   |-> "invalid crawlers",
     text  |-> Join(unknown, <<",", " ">>)]

\* the "for name in mods" loop of one category.
\* st = [valid, unknown, log, imports, exc]
RECURSIVE ModsLoop(_, _, _, _, _)
ModsLoop(e, c, typ, mods, st) ==
    IF mods = <<>> THEN st
    ELSE LET name == Head(mods) IN
         IF SkipFc2fan(e, c, name)
         THEN ModsLoop(e, c, typ, Tail(mods), [st EXCEPT !.log = Append(@, SkippedFc2fanNote)])
         ELSE LET import_name == <<"w", "e", "b", ".">> \o name
                  r           == Import(e, import_name)
                  st1         == [st EXCEPT !.imports = Append(@, import_name)]
              IN CASE r = "ok" ->
                        ModsLoop(e, c, typ, Tail(mods), [st1 EXCEPT !.valid = KeepValid(@, import_name)])
                   [] r = "ModuleNotFoundError" ->
                        ModsLoop(e, c, typ, Tail(mods), [st1 EXCEPT !.unknown = Append(@, name)])
                   [] OTHER ->
                        [st1 EXCEPT !.exc = [type |-> r, sec |-> "Priority", key |-> typ, name |-> name]]

\* the "for typ, cfg_str in cfg.Priority.items()" loop.
\* st = [cfg, unknown, log, imports, exc]
RECURSIVE PriorityLoop(_, _, _)
PriorityLoop(e, i, st) ==
    IF i > Len(st.cfg.Priority) THEN st
    ELSE LET typ     == st.cfg.Priority[i].key
             cfg_str == st.cfg.Priority[i].val
         IN IF cfg_str.t # "str" THEN [st EXCEPT !.exc = NotStr("Priority", typ)]
            ELSE LET r == ModsLoop(e, st.cfg, typ, Split(cfg_str.v, ","),
                                   [valid |-> <<>>, unknown |-> st.unknown, log |-> st.log,
                                    imports |-> st.imports, exc |-> NoExc])
                     st1 == [st EXCEPT !.unknown = r.unknown, !.log = r.log,
                                       !.imports = r.imports, !.exc = r.exc]
                 IN IF r.exc.type # "none" THEN st1
                    ELSE PriorityLoop(e, i + 1,
                                      [st1 EXCEPT !.cfg.Priority[i].val = TupleV(r.valid)])

import_crawlers(e, c) ==
    LET a == GetAttr(c, "Priority") IN
    IF a.exc.type # "none"
    THEN [cfg |-> c, unknown |-> <<>>, log |-> <<>>, imports |-> <<>>, exc |-> a.exc]
    ELSE LET r == PriorityLoop(e, 1, [cfg |-> c, unknown |-> <<>>, log |-> <<>>,
                                     imports |-> <<>>, exc |-> NoExc])
         IN IF r.exc.type = "none" /\ r.unknown # <<>>
            THEN [r EXCEPT !.log = Append(@, UnknownReport(e, r.unknown))]
            ELSE r

---------------------------------------------------------------------------
(* convert_naming_rule *)

\* os.sep
OsSep == <<"/">>

convert_naming_rule(c) ==
    LET a == GetAttr(c, "NamingRule") IN
    IF a.exc.type # "none" THEN [cfg |-> c, exc |-> a.exc]
    ELSE IF c.NamingRule.output_folder.t # "str" \/ c.NamingRule.save_dir.t # "str"
         \* str + Template
         THEN [cfg |-> c, exc |-> Raise("TypeError", "NamingRule", "save_dir")]
    ELSE LET combine == c.NamingRule.output_folder.v \o OsSep \o c.NamingRule.save_dir.v IN
         [cfg |-> [c EXCEPT !.NamingRule.save_dir = TemplateV(combine),
                            !.NamingRule.filename = TemplateV(c.NamingRule.filename.v)],
          exc |-> NoExc]

---------------------------------------------------------------------------
(* check_proxy_free_url *)

\* "for site, url in sec.items()" on the SectionProxy cfg['ProxyFree']: every
\* value is read with ConfigParser.get (interpolation) and written with
\* ConfigParser.set (BasicInterpolation.before_set)
RECURSIVE ProxyFreeLoop(_, _)
ProxyFreeLoop(c, i) ==
    IF i > Len(c.ProxyFree) THEN [cfg |-> c, exc |-> NoExc]
    ELSE LET site == c.ProxyFree[i].key
             r    == before_get(c.ProxyFree[i].val) IN
         IF r.exc.type # "none"
         THEN [cfg |-> c, exc |-> [r.exc EXCEPT !.sec = "ProxyFree", !.key = site]]
         ELSE LET low == Lower(r.val)
                  url == IF StartsWith(low, <<"h", "t", "t", "p">>) THEN low ELSE <<"h", "t", "t", "p", ":", "/", "/">> \o low
                  new == IF is_url(url) THEN url ELSE <<>>
              IN IF LoneFormat(new)
                 THEN [cfg |-> c, exc |-> Raise("ValueError", "ProxyFree", site)]
                 ELSE ProxyFreeLoop([c EXCEPT !.ProxyFree[i].val = StrV(new)], i + 1)

check_proxy_free_url(c) ==
    IF "ProxyFree" \notin DOMAIN c
    THEN [cfg |-> c, exc |-> Raise("KeyError", "ProxyFree", "")]
    ELSE ProxyFreeLoop(c, 1)
---------------------------------------------------------------------------
(* The inputs: the configuration file's content and the environment *)

Categories == <<"movie", "actress">>
Sites == <<"javbus", "javdb">>

\* the sections a well-formed config.ini gives, every value a raw string
Content(in) ==
    [Network    |-> [retry |-> StrV(in.retry), timeout |-> StrV(in.timeout),
                     proxy |-> StrV(in.proxy)],
     File       |-> [media_ext |-> StrV(<<"m", "p", "4", ";", "A", "V", "I", ";", ".", "m", "k", "v">>),
                     ignore_folder |-> StrV(<<"#", "r", "e", "c", "y", "c", "l", "e", ";", "T", "m", "p">>)],
     Crawler    |-> [required_keys |-> StrV(<<"c", "o", "v", "e", "r", ",", "t", "i", "t", "l", "e">>),
                     hardworking_mode |-> StrV(in.hardworking_mode),
                     remove_actor_in_title |-> StrV(in.remove_actor_in_title),
                     fc2fan_local_path |-> StrV(in.fc2fan_local_path)],
     Priority   |-> [i \in 1..Len(Categories) |-> [key |-> Categories[i], val |-> StrV(in.priority[i])]],
     NamingRule |-> [output_folder |-> StrV(<<"#", "d", "o", "n", "e">>), save_dir |-> StrV(<<"$", "a", "c", "t", "r", "e", "s", "s", "/", "$", "n", "u", "m">>),
                     filename |-> StrV(<<"$", "n", "u", "m">>)],
     NFO        |-> [add_genre_to_tag |-> StrV(in.add_genre_to_tag)],
     ProxyFree  |-> [i \in 1..Len(Sites) |-> [key |-> Sites[i], val |-> StrV(in.proxy_free[i])]]]

EmptyConfig == [s \in {} |-> <<>>]

\* the web package: javbus and fc2fan import cleanly, avsox raises on import,
\* nothing else is there
Installed == {<<"w", "e", "b", ".", "j", "a", "v", "b", "u", "s">>, <<"w", "e", "b", ".", "f", "c", "2", "f", "a", "n">>}
Broken == {<<"w", "e", "b", ".", "a", "v", "s", "o", "x">>}
ProviderNames == {<<"j", "a", "v", "b", "u", "s">>, <<"j", "a", "v", "d", "b">>, <<"a", "v", "s", "o", "x">>, fc2fan}

RECURSIVE NameLists(_)
NameLists(n) == IF n = 0 THEN {<<>>}
                ELSE LET shorter == NameLists(n - 1) IN
                     shorter \cup {Append(l, x) : l \in {s \in shorter : Len(s) = n - 1}, x \in ProviderNames}

\* the raw value of a category: up to MaxMods names joined by ','
PriorityStrings == {Join(l, <<",">>) : l \in NameLists(MaxMods)}

RECURSIVE FileLists(_)
FileLists(n) == IF n = 0 THEN {<<>>}
                ELSE LET shorter == FileLists(n - 1) IN
                     shorter \cup {Append(l, k) : l \in {s \in shorter : Len(s) = n - 1}, k \in FileKinds}

RetryStrings == {<<"3">>, <<"0">>, <<"-", "1">>, <<"3", "x">>, <<>>}
TimeoutStrings == {<<"1", "_", "0">>, <<"1", "o">>}
BooleanStrings == {<<"Y", "e", "s">>, <<"o", "F", "F">>, <<"m", "a", "y", "b", "e">>}
ProxyStrings == {<<>>, <<"h", "t", "t", "p", ":", "/", "/", "1", "2", "7", ".", "0", ".", "0", ".", "1", ":", "1", "0", "8", "0">>, <<"H", "T", "T", "P", ":", "/", "/", "P", "r", "o", "x", "y", ".", "L", "o", "c", "a", "l", ":", "8", "0", "8", "0">>,
                   <<"s", "o", "c", "k", "s", "5", ":", "/", "/", "a", "-", "b", ".", "c", ":", "1">>, <<"f", "t", "p", ":", "/", "/", "x", ":", "1">>, <<"h", "t", "t", "p", "s", ":", "/", "/", "h", ":", "1">>, <<"h", "t", "t", "p", ":", "/", "/", "h">>,
                   <<"h", "t", "t", "p", ":", "/", "/", "h", ":">>, <<"h", "t", "t", "p", ":", "/", "/", ":", "1">>, <<"h", "t", "t", "p", ":", "/", "/", "a", "_", "b", ":", "1">>, <<"h", "t", "t", "p", ":", "/", "/", "h", ":", "1", "/">>,
                   <<"s", "o", "c", "k", "s", "5", ":", "/", "/", "h", ":", "1", "x">>, <<"h", "t", "t", "p", ":", "/", "/", "h", ":", "1", ":", "2">>, <<"s", "o", "c", "k", "s", "4", ":", "/", "/", "h", ":", "1">>, <<"1", "2", "7", ".", "0", ".", "0", ".", "1", ":", "1", "0", "8", "0">>,
                   <<"x", "h", "t", "t", "p", ":", "/", "/", "h", ":", "1">>, <<"h", "t", "t", "p", ":", "/", "h", ":", "1">>}
ProxyFreeStrings == {<<"e", "x", "a", "m", "p", "l", "e", ".", "c", "o", "m">>, <<"h", "t", "t", "p", ":", "/", "/", "e", "x", "a", "m", "p", "l", "e", ".", "c", "o", "m">>, <<"H", "T", "T", "P", "S", ":", "/", "/", "E", "x", "a", "m", "p", "l", "e", ".", "C", "O", "M", "/", "P", "a", "t", "h", "?", "q", "=", "1">>,
                     <<"!", "!", "!", "i", "n", "v", "a", "l", "i", "d", "!", "!", "!">>, <<>>, <<"h", "t", "t", "p", "b", "i", "n", ".", "o", "r", "g">>, <<"e", "x", "a", "%", "m", "p", "l", "e", ".", "c", "o", "m">>,
                     <<"e", "x", "a", "m", "p", "l", "e", ".", "c", "o", "m", "/", "a", "%", "%", "b">>, <<"l", "o", "c", "a", "l", "h", "o", "s", "t", ":", "8", "0", "8", "0">>, <<"1", "9", "2", ".", "1", "6", "8", ".", "0", ".", "1">>,
                     <<"h", "t", "t", "p", "s", ":", "/", "/", "1", "9", "2", ".", "1", "6", "8", ".", "0", ".", "1", ":", "8", "0", "8", "0">>, <<"f", "t", "p", ":", "/", "/", "e", "x", "a", "m", "p", "l", "e", ".", "c", "o", "m">>, <<"h", "t", "t", "p", ":", "e", "x", "a", "m", "p", "l", "e", ".", "c", "o", "m">>,
                     <<"e", "x", "a", "m", "p", "l", "e", ".", "c", "o", "m", ":", "8", "0", "x">>, <<"a", " ", "b", ".", "c", "o", "m">>, <<"e", "x", "a", "m", "p", "l", "e", ".", "c", "o", "m", "/", "a", " ", "b">>, <<"e", "x", "a", "m", "p", "l", "e">>,
                     <<"-", "a", ".", "e", "x", "a", "m", "p", "l", "e", ".", "c", "o", "m">>, <<"e", "x", "a", "m", "p", "l", "e", ".", "c", "o", "m", ".">>}
PathStrings == {<<>>, <<"/", "f", "c", "2">>}

DefaultInput ==
    [files |-> <<"utf8">>, platform |-> "utf-8", dirs |-> {}, asMain |-> FALSE,
     retry |-> <<"3">>, timeout |-> <<"1", "_", "0">>, proxy |-> <<>>,
     hardworking_mode |-> <<"Y", "e", "s">>, remove_actor_in_title |-> <<"o", "F", "F">>,
     add_genre_to_tag |-> <<"Y", "e", "s">>, fc2fan_local_path |-> <<>>,
     priority |-> <<<<"j", "a", "v", "b", "u", "s">>, <<"j", "a", "v", "b", "u", "s", ",", "f", "c", "2", "f", "a", "n">>>>,
     proxy_free |-> <<<<"e", "x", "a", "m", "p", "l", "e", ".", "c", "o", "m">>, <<>>>>]

\* the inputs, varied one group at a time around DefaultInput, and a group
\* that combines a good and a bad value of every kind
FileInputs ==
    {[DefaultInput EXCEPT !.files = f, !.platform = p] :
        f \in FileLists(MaxFiles) \ {<<>>}, p \in Platforms}
ScalarInputs ==
    {[DefaultInput EXCEPT !.retry = r, !.timeout = t, !.hardworking_mode = h,
                          !.remove_actor_in_title = a, !.add_genre_to_tag = g] :
        r \in RetryStrings, t \in TimeoutStrings, h \in BooleanStrings,
        a \in {<<"0">>, <<"2">>}, g \in {<<"T", "R", "U", "E">>, <<"n", "o", "p", "e">>}}
ProxyInputs == {[DefaultInput EXCEPT !.proxy = p] : p \in ProxyStrings}
PriorityInputs ==
    {[DefaultInput EXCEPT !.priority = <<a, b>>, !.fc2fan_local_path = p, !.dirs = d, !.asMain = m] :
        a \in PriorityStrings, b \in {<<"j", "a", "v", "d", "b">>, <<"f", "c", "2", "f", "a", "n", ",", "j", "a", "v", "b", "u", "s">>, <<"a", "v", "s", "o", "x">>, <<"j", "a", "v", "b", "u", "s", ",", " ", "j", "a", "v", "d", "b">>},
        p \in PathStrings, d \in {{}, {<<"/", "f", "c", "2">>}}, m \in BOOLEAN}
ProxyFreeInputs ==
    {[DefaultInput EXCEPT !.proxy_free = <<a, b>>] :
        a \in ProxyFreeStrings, b \in {<<"e", "x", "a", "m", "p", "l", "e", ".", "c", "o", "m">>, <<"!", "!", "!", "i", "n", "v", "a", "l", "i", "d", "!", "!", "!">>, <<"h", "t", "t", "p", ":", "/", "/", "a", "%", "b", ".", "c", "o", "m">>}}
MixedInputs ==
    {[DefaultInput EXCEPT !.retry = r, !.add_genre_to_tag = g, !.proxy = p, !.priority = q,
                          !.proxy_free = f] :
        r \in {<<"3">>, <<"3", "x">>}, g \in {<<"o", "n">>, <<"2">>},
        p \in {<<"s", "o", "c", "k", "s", "5", ":", "/", "/", "h", ":", "1">>, <<"f", "t", "p", ":", "/", "/", "x", ":", "1">>},
        q \in {<<<<"j", "a", "v", "d", "b", ",", "j", "a", "v", "b", "u", "s">>, <<"f", "c", "2", "f", "a", "n">>>>, <<<<"j", "a", "v", "b", "u", "s", ",", "a", "v", "s", "o", "x">>, <<"j", "a", "v", "d", "b">>>>},
        f \in {<<<<"!", "!", "!", "i", "n", "v", "a", "l", "i", "d", "!", "!", "!">>, <<"e", "x", "a", "m", "p", "l", "e", ".", "c", "o", "m">>>>, <<<<"e", "x", "a", "%", "m", "p", "l", "e", ".", "c", "o", "m">>, <<>>>>}}

Inputs == FileInputs \cup ScalarInputs \cup ProxyInputs \cup PriorityInputs
          \cup ProxyFreeInputs \cup MixedInputs

---------------------------------------------------------------------------
(* Module-level initialisation: cfg = Config(); cfg.read(cfg_file);        *)
(* cfg.validate()                                                          *)

Init == /\ env \in {[files |-> in.files, platform |-> in.platform, dirs |-> in.dirs,
                     asMain |-> in.asMain, installed |-> Installed, broken |-> Broken,
                     content |-> Content(in)] : in \in Inputs}
        /\ cfg = EmptyConfig
        /\ pc = "read"
        /\ exc = NoExc
        /\ log = <<>>
        /\ imports = <<>>
        /\ reads = <<>>
        /\ unknown_mods = <<>>
        /\ run = 0
        /\ first = EmptyConfig

\* cfg.read(cfg_file), then the call of cfg.validate()
Config_read ==
    /\ pc = "read"
    /\ LET r == ConfigRead(env.files, env.platform) IN
         /\ cfg' = IF r.parsed THEN env.content ELSE EmptyConfig
         /\ reads' = r.opened
         /\ exc' = IF r.status = "ok" THEN NoExc ELSE Raise(r.status, "", "")
         /\ pc' = IF r.status = "ok" THEN "norm_int" ELSE "read_raised"
         /\ run' = IF r.status = "ok" THEN 1 ELSE 0
    /\ UNCHANGED <<env, log, imports, unknown_mods, first>>

\* where validate goes after a pass
After(r, next) == IF r.exc.type = "none" THEN next ELSE "raised"

Pass_norm_int ==
    /\ pc = "norm_int"
    /\ LET r == norm_int(cfg) IN
         cfg' = r.cfg /\ exc' = r.exc /\ pc' = After(r, "norm_tuples")
    /\ UNCHANGED <<env, log, imports, reads, unknown_mods, run, first>>

Pass_norm_tuples ==
    /\ pc = "norm_tuples"
    /\ LET r == norm_tuples(cfg) IN
         cfg' = r.cfg /\ exc' = r.exc /\ pc' = After(r, "norm_boolean")
    /\ UNCHANGED <<env, log, imports, reads, unknown_mods, run, first>>

Pass_norm_boolean ==
    /\ pc = "norm_boolean"
    /\ LET r == norm_boolean(cfg) IN
         cfg' = r.cfg /\ exc' = r.exc /\ pc' = After(r, "validate_proxy")
    /\ UNCHANGED <<env, log, imports, reads, unknown_mods, run, first>>

Pass_validate_proxy ==
    /\ pc = "validate_proxy"
    /\ LET r == validate_proxy(cfg) IN
         /\ cfg' = r.cfg /\ exc' = r.exc /\ pc' = After(r, "import_crawlers")
         /\ log' = log \o r.log
    /\ UNCHANGED <<env, imports, reads, unknown_mods, run, first>>

Pass_import_crawlers ==
    /\ pc = "import_crawlers"
    /\ LET r == import_crawlers(env, cfg) IN
         /\ cfg' = r.cfg /\ exc' = r.exc /\ pc' = After(r, "convert_naming_rule")
         /\ log' = log \o r.log
         /\ imports' = imports \o r.imports
         /\ unknown_mods' = r.unknown
    /\ UNCHANGED <<env, reads, run, first>>

Pass_convert_naming_rule ==
    /\ pc = "convert_naming_rule"
    /\ LET r == convert_naming_rule(cfg) IN
         cfg' = r.cfg /\ exc' = r.exc /\ pc' = After(r, "check_proxy_free_url")
    /\ UNCHANGED <<env, log, imports, reads, unknown_mods, run, first>>

\* the last pass: validate returns when it does
Pass_check_proxy_free_url ==
    /\ pc = "check_proxy_free_url"
    /\ LET r == check_proxy_free_url(cfg) IN
         /\ cfg' = r.cfg /\ exc' = r.exc /\ pc' = After(r, "done")
         /\ first' = IF r.exc.type = "none" /\ run = 1 THEN r.cfg ELSE first
    /\ UNCHANGED <<env, log, imports, reads, unknown_mods, run>>

\* cfg.validate() called once more on the Config it has validated
Validate_again ==
    /\ pc = "done" /\ run = 1
    /\ pc' = "norm_int" /\ run' = 2
    /\ UNCHANGED <<env, cfg, exc, log, imports, reads, unknown_mods, first>>

Next == \/ Config_read
        \/ Pass_norm_int
        \/ Pass_norm_tuples
        \/ Pass_norm_boolean
        \/ Pass_validate_proxy
        \/ Pass_import_crawlers
        \/ Pass_convert_naming_rule
        \/ Pass_check_proxy_free_url
        \/ Validate_again

Spec == Init /\ [][Next]_vars

TypeOK == pc \in {"read", "read_raised", "norm_int", "norm_tuples", "norm_boolean", "validate_proxy",
                  "import_crawlers", "convert_naming_rule", "check_proxy_free_url", "done", "raised"}
---------------------------------------------------------------------------
(* Properties *)

Range(s) == {s[i] : i \in 1..Len(s)}

\* the first validate is past import_crawlers, which returned normally
ImportReturned == /\ run = 1
                  /\ \/ pc \in {"convert_naming_rule", "check_proxy_free_url", "done"}
                     \/ pc = "raised" /\ exc.sec \in {"NamingRule", "ProxyFree"}

\* import_crawlers raised in the first validate
ImportRaised == run = 1 /\ pc = "raised" /\ exc.sec = "Priority"

\* the names of category i as the file gives them
RawNames(i) == Split(env.content.Priority[i].val.v, ",")

Fc2fanPath == env.content.Crawler.fc2fan_local_path.v

\* name is attempted: it is not the fc2fan crawler without its directory
PassesGate(name) == name = fc2fan => Fc2fanPath \in env.dirs

Loadable(name) == PassesGate(name) /\ <<"w", "e", "b", ".">> \o name \in env.installed \ env.broken

NotFound(name) == PassesGate(name) /\ <<"w", "e", "b", ".">> \o name \notin env.installed \cup env.broken

\* C1: after import_crawlers, every category holds exactly 'web.'+name for the
\* loadable names of its list that passed the fc2fan gate, in the order of
\* the list; a name whose import raised ModuleNotFoundError is not in it and
\* is in unknown_mods.
C1_ResolvedInOrder ==
    ImportReturned =>
        \A i \in 1..Len(Categories) :
            LET names == RawNames(i)
                kept  == SelectSeq(names, Loadable)
                got   == cfg.Priority[i].val
            IN /\ got.t = "tuple"
               /\ got.v = [k \in 1..Len(kept) |-> <<"w", "e", "b", ".">> \o kept[k]]
               /\ \A k \in 1..Len(names) :
                     NotFound(names[k]) => /\ <<"w", "e", "b", ".">> \o names[k] \notin Range(got.v)
                                           /\ names[k] \in Range(unknown_mods)

\* a list of three names whose middle one is unknown, resolved to the outer two
C1_Witness ==
    /\ ImportReturned
    /\ LET names == RawNames(1) IN
         /\ Len(names) = 3 /\ NotFound(names[2]) /\ Loadable(names[1]) /\ Loadable(names[3])
         /\ names[1] # names[3]
         /\ cfg.Priority[1].val.v = <<<<"w", "e", "b", ".">> \o names[1], <<"w", "e", "b", ".">> \o names[3]>>

\* C6: when fc2fan_local_path is not an existing directory, fc2fan is never
\* imported, never resolved, never recorded as unknown and never the cause
\* of an exception, and every other name of every category is still imported,
\* in order.
C6_Fc2fanSkipped ==
    Fc2fanPath \notin env.dirs =>
        /\ <<"w", "e", "b", ".", "f", "c", "2", "f", "a", "n">> \notin Range(imports)
        /\ fc2fan \notin Range(unknown_mods)
        /\ exc.name # fc2fan
        /\ \A r \in Range(log) : r.msg = "invalid crawlers" => r.text = Join(unknown_mods, <<",", " ">>)
        /\ ImportReturned =>
              /\ \A i \in 1..Len(Categories) : <<"w", "e", "b", ".", "f", "c", "2", "f", "a", "n">> \notin Range(cfg.Priority[i].val.v)
              /\ LET others(i) == SelectSeq(RawNames(i), LAMBDA n : n # fc2fan)
                     all == others(1) \o others(2)
                 IN imports = [k \in 1..Len(all) |-> <<"w", "e", "b", ".">> \o all[k]]
              /\ Cardinality({k \in 1..Len(log) : log[k] = SkippedFc2fanNote})
                    = Cardinality({<<i, k>> \in (1..Len(Categories)) \X (1..(MaxMods + 1)) :
                                      k <= Len(RawNames(i)) /\ RawNames(i)[k] = fc2fan})

\* fc2fan first in a list, skipped, and the names after it imported
C6_Witness ==
    /\ ImportReturned
    /\ Fc2fanPath \notin env.dirs
    /\ Len(RawNames(1)) >= 2 /\ RawNames(1)[1] = fc2fan /\ RawNames(1)[2] # fc2fan
    /\ imports # <<>> /\ imports[1] = <<"w", "e", "b", ".">> \o RawNames(1)[2]
    /\ SkippedFc2fanNote \in Range(log)

Reports == {k \in 1..Len(log) : log[k].msg = "invalid crawlers"}

\* the names import_crawlers could not find, over all categories in order
ExpectedUnknown == SelectSeq(RawNames(1), NotFound) \o SelectSeq(RawNames(2), NotFound)

\* C7: the report of unknown providers is emitted at most once, only when
\* every category holds its resolved sequence; when import_crawlers returns
\* it has been emitted exactly if some name was unknown, and it lists the
\* unknown names of all categories in the order met, joined by ', '; when
\* import_crawlers raises, none is emitted.
C7_OneReport ==
    /\ Cardinality(Reports) <= 1
    /\ \A k \in Reports :
          /\ \A i \in 1..Len(Categories) : cfg.Priority[i].val.t = "tuple"
          /\ log[k].text = Join(ExpectedUnknown, <<",", " ">>)
          /\ log[k].level = IF env.asMain THEN "PRINT" ELSE "WARNING"
          /\ k = Len(log)
    /\ ImportReturned => (Reports # {} <=> ExpectedUnknown # <<>>)
    /\ ImportReturned => unknown_mods = ExpectedUnknown
    /\ ImportRaised => Reports = {}

\* unknown names in both categories, reported together
C7_Witness ==
    /\ ImportReturned
    /\ SelectSeq(RawNames(1), NotFound) # <<>> /\ SelectSeq(RawNames(2), NotFound) # <<>>
    /\ Len(ExpectedUnknown) >= 3
    /\ Reports # {}
    /\ \A k \in Reports : Len(log[k].text) > Len(Join(ExpectedUnknown, <<>>))

\* validate has been entered a second time, on the Config the first run validated
SecondRun == run = 2

\* every field that validate types, in a configuration with all its sections
TypedFields(c) ==
    <<c.Network.retry, c.Network.timeout, c.Network.proxy,
      c.File.media_ext, c.File.ignore_folder, c.Crawler.required_keys,
      c.Crawler.hardworking_mode, c.Crawler.remove_actor_in_title, c.NFO.add_genre_to_tag,
      c.NamingRule.save_dir, c.NamingRule.filename>>
    \o [i \in 1..Len(c.Priority) |-> c.Priority[i].val]
    \o [i \in 1..Len(c.ProxyFree) |-> c.ProxyFree[i].val]

FieldsAsAfterFirstRun ==
    /\ Len(TypedFields(cfg)) = Len(TypedFields(first))
    /\ \A i \in 1..Len(TypedFields(cfg)) : Same(TypedFields(cfg)[i], TypedFields(first)[i])

\* C2 as stated: a second validate on a validated Config does not raise and
\* leaves every typed field as the first run left it.
C2_SecondRunReturns ==
    SecondRun => pc # "raised" /\ FieldsAsAfterFirstRun

\* C2 as the code has it: the second validate raises in its first statement,
\* getint on the integer Network.retry (AttributeError, or ValueError for 0),
\* before anything is written: every typed field stays as the first run left it.
C2_SecondRunRaisesUnchanged ==
    SecondRun =>
        /\ pc \in {"norm_int", "raised"}
        /\ pc = "raised" =>
              /\ exc.sec = "Network" /\ exc.key = "retry"
              /\ exc.type = IF first.Network.retry.v = 0 THEN "ValueError" ELSE "AttributeError"
        /\ FieldsAsAfterFirstRun

\* the second validate has raised on a non-zero retry
C2_Witness ==
    /\ SecondRun /\ pc = "raised" /\ exc.type = "AttributeError"
    /\ cfg.Network.retry = IntV(3)
    /\ cfg.Network.proxy.v # NoProxies

IsTupleOfStrings(x) == x.t = "tuple" /\ \A i \in 1..Len(x.v) : x.v[i] \in Seq(STRING)

\* the documented type of every field of the schema
DocumentedTypes(c) ==
    /\ DOMAIN c = {"Network", "File", "Crawler", "Priority", "NamingRule", "NFO", "ProxyFree"}
    /\ c.Network.retry.t = "int" /\ c.Network.retry.v \in Int
    /\ c.Network.timeout.t = "int" /\ c.Network.timeout.v \in Int
    /\ c.Network.proxy.t = "dict" /\ DOMAIN c.Network.proxy.v \in {{}, {"http", "https"}}
    /\ IsTupleOfStrings(c.File.media_ext)
    /\ IsTupleOfStrings(c.File.ignore_folder)
    /\ IsTupleOfStrings(c.Crawler.required_keys)
    /\ c.Crawler.hardworking_mode.t = "bool" /\ c.Crawler.hardworking_mode.v \in BOOLEAN
    /\ c.Crawler.remove_actor_in_title.t = "bool" /\ c.Crawler.remove_actor_in_title.v \in BOOLEAN
    /\ c.NFO.add_genre_to_tag.t = "bool" /\ c.NFO.add_genre_to_tag.v \in BOOLEAN
    /\ \A i \in 1..Len(c.Priority) : IsTupleOfStrings(c.Priority[i].val)
    /\ c.NamingRule.save_dir.t = "Template"
    /\ c.NamingRule.filename.t = "Template"
    /\ \A i \in 1..Len(c.ProxyFree) : c.ProxyFree[i].val.t = "str"

\* C3: when validate has returned, every field of the schema has its
\* documented type; in every other outcome an exception has left read or
\* validate, so the module never finishes initialising with a raw field.
C3_ValidatedIsTyped ==
    /\ pc = "done" => DocumentedTypes(cfg) /\ exc = NoExc
    /\ pc \in {"raised", "read_raised"} => exc.type # "none"

\* validate returned on a configuration with a proxy and resolved crawlers
C3_Witness ==
    /\ pc = "done" /\ run = 1
    /\ DOMAIN cfg.Network.proxy.v = {"http", "https"}
    /\ cfg.Priority[1].val.v # <<>>
    /\ cfg.Crawler.hardworking_mode = BoolV(TRUE)
    /\ cfg.NFO.add_genre_to_tag = BoolV(TRUE)

---------------------------------------------------------------------------

RawProxy == env.content.Network.proxy.v

\* ^(socks5|http)://host:port$ read as a shape: the text is a scheme, '://',
\* a non-empty host of letters, digits, '.' and '-', ':' and a non-empty port
\* of digits
ProxyShape(s) ==
    \E scheme \in {<<"s", "o", "c", "k", "s", "5">>, <<"h", "t", "t", "p">>} : \E h \in 1..Len(s) : \E d \in 1..Len(s) :
        /\ Len(s) = Len(scheme) + 3 + h + 1 + d
        /\ LET host == SubSeq(s, Len(scheme) + 4, Len(scheme) + 3 + h)
               port == SubSeq(s, Len(s) - d + 1, Len(s))
           IN /\ s = scheme \o <<":", "/", "/">> \o host \o <<":">> \o port
              /\ \A i \in 1..h : host[i] \in LowerLetters \cup Digits \cup {".", "-"}
              /\ \A i \in 1..d : port[i] \in Digits

\* the first validate is past validate_proxy
ProxyValidated ==
    run = 1 /\ \/ pc \in {"import_crawlers", "convert_naming_rule", "check_proxy_free_url", "done"}
               \/ pc = "raised" /\ exc.sec \in {"Priority", "NamingRule", "ProxyFree"}

ProxyWarnings == {k \in 1..Len(log) : log[k] = InvalidProxyWarning}

\* C5: after validate_proxy, Network.proxy is the empty mapping or maps
\* exactly http and https to one URL; it is non-empty exactly when the
\* lowercased raw string has the shape scheme://host:port, and the URL is
\* that lowercased string; a non-empty string of another shape gives the
\* empty mapping and one warning; the empty string gives the empty mapping
\* and no warning; validate_proxy raises nothing.
C5_ProxyMapping ==
    /\ ProxyValidated =>
          LET p == cfg.Network.proxy IN
          /\ p.t = "dict"
          /\ IF ProxyShape(Lower(RawProxy))
             THEN /\ DOMAIN p.v = {"http", "https"}
                  /\ p.v["http"] = Lower(RawProxy) /\ p.v["https"] = Lower(RawProxy)
                  /\ ProxyWarnings = {}
             ELSE /\ DOMAIN p.v = {}
                  /\ Cardinality(ProxyWarnings) = IF RawProxy = <<>> THEN 0 ELSE 1
    /\ run = 1 /\ pc = "raised" => ~(exc.sec = "Network" /\ exc.key = "proxy")

\* an upper-case proxy URL accepted and stored in lower case
C5_Witness ==
    /\ ProxyValidated
    /\ RawProxy # Lower(RawProxy)
    /\ DOMAIN cfg.Network.proxy.v = {"http", "https"}
    /\ cfg.Network.proxy.v["https"] = Lower(RawProxy)

---------------------------------------------------------------------------

AllMissing(fs) == \A i \in 1..Len(fs) : fs[i] = "missing"

\* no file was parsed: Config.read left the configuration without sections
NothingParsed == pc # "read" /\ cfg = EmptyConfig

\* C10 as stated: when no path yields a parsed file, loading raises.
C10_LoaderRaises ==
    NothingParsed => pc = "read_raised"

\* C10 as the code has it: when no path yields a parsed file, Config.read
\* raises if some file could be opened and returns normally, leaving an empty
\* Config, if every file is missing; validate then raises NoSectionError for
\* 'Network' in its first statement, so the initialisation never completes
\* with an empty Config; attribute access to an absent section is a KeyError
\* naming it.
C10_EmptyConfigNeverValidated ==
    NothingParsed =>
        /\ pc \in {"read_raised", "norm_int", "raised"}
        /\ pc = "read_raised" <=> ~AllMissing(env.files)
        /\ pc = "raised" => exc = Raise("NoSectionError", "Network", "")
        /\ \A s \in {"Network", "Priority", "ProxyFree"} :
              GetAttr(cfg, s).exc = Raise("KeyError", s, "")

\* the file is missing, read returned and validate raised
C10_Witness ==
    /\ NothingParsed /\ AllMissing(env.files)
    /\ pc = "raised" /\ exc.type = "NoSectionError" /\ reads = <<>>

---------------------------------------------------------------------------

RawOf(sec, key) == env.content[sec][key].v

\* some name that import_crawlers attempts raises on import
BrokenProviderListed ==
    \E i \in 1..Len(Categories) : \E k \in 1..Len(RawNames(i)) :
        PassesGate(RawNames(i)[k]) /\ <<"w", "e", "b", ".">> \o RawNames(i)[k] \in env.broken

StillRaw(sec, key) == cfg[sec][key].t = "str"

\* C4: a malformed integer, an unrecognised boolean token and an import error
\* other than module-not-found each make validate raise with no later pass
\* run; a malformed proxy, an unknown provider and a malformed ProxyFree URL
\* never make validate raise.
C4_ErrorClasses ==
    (run = 1 /\ cfg # EmptyConfig) =>
        /\ (~IsIntLiteral(RawOf("Network", "retry")) \/ ~IsIntLiteral(RawOf("Network", "timeout")))
              => pc \in {"norm_int", "raised"} /\ StillRaw("File", "media_ext")
        /\ (\E f \in Range(BooleanFields) :
               Lower(RawOf(f[1], f[2])) \notin TrueTokens \cup FalseTokens)
              => /\ pc \in {"norm_int", "norm_tuples", "norm_boolean", "raised"}
                 /\ StillRaw("Network", "proxy")
        /\ BrokenProviderListed
              => /\ pc \notin {"convert_naming_rule", "check_proxy_free_url", "done"}
                 /\ StillRaw("NamingRule", "filename")
        /\ pc = "raised"
              => /\ exc.type \in {"ValueError", "ImportError"}
                 /\ exc.sec \in {"Network", "Crawler", "NFO", "Priority"}
                 /\ exc.sec = "Network" => exc.key \in {"retry", "timeout"}
                 /\ exc.sec = "Priority" => exc.type = "ImportError"

RawProxyFree(i) == env.content.ProxyFree[i].val.v

\* the URL the sanitizer checks for a raw value
WithScheme(r) == IF StartsWith(Lower(r), <<"h", "t", "t", "p">>) THEN Lower(r) ELSE <<"h", "t", "t", "p", ":", "/", "/">> \o Lower(r)

\* C8: check_proxy_free_url raises nothing and logs nothing, and leaves every
\* entry as u when is_url(u) and as '' otherwise, u being the lowercased raw
\* value, with 'http://' put before it when it has no http prefix.
C8_ProxyFreeSanitized ==
    run = 1 =>
        /\ ~(pc = "raised" /\ exc.sec = "ProxyFree")
        /\ pc = "done" =>
              /\ \A i \in 1..Len(Sites) :
                    LET u == WithScheme(RawProxyFree(i))
                        got == cfg.ProxyFree[i].val
                    IN /\ got = StrV(IF is_url(u) THEN u ELSE <<>>)
                       /\ got.v = <<>> \/ is_url(got.v)
              /\ Len(log) = Cardinality(ProxyWarnings) + Cardinality(Reports)
                               + Cardinality({k \in 1..Len(log) : log[k] = SkippedFc2fanNote})

EncodingRank(e) == CASE e = "utf-8" -> 1 [] e = "utf-8-sig" -> 2 [] e = "default" -> 3

OpenedWith(e) == {k \in 1..Len(reads) : reads[k][2] = e}

\* C9: Config.read opens the files as UTF-8, then as utf-8-sig, then in the
\* platform's encoding, a later encoding only after a decode failure of the
\* one before; files that read as UTF-8 are not read again; a file saved as
\* UTF-8 with a byte-order mark is loaded; a failure of the last attempt
\* leaves read as an exception.
C9_EncodingFallback ==
    pc # "read" =>
        /\ \A j, k \in 1..Len(reads) :
              j < k => EncodingRank(reads[j][2]) <= EncodingRank(reads[k][2])
        /\ OpenedWith("utf-8-sig") # {} => "gbk" \in Range(env.files)
        /\ OpenedWith("default") # {} => OpenedWith("utf-8-sig") # {} /\ "gbk" \in Range(env.files)
        /\ Range(env.files) \subseteq {"utf8", "missing"} => OpenedWith("utf-8-sig") \cup OpenedWith("default") = {}
        /\ Range(env.files) = {"bom"} => pc # "read_raised" /\ cfg = env.content
        /\ pc = "read_raised" => exc.type # "none"

====
